---- MODULE Spec2Model ----
(***************************************************************************)
(* Model of compio-runtime/src/runtime/registry.rs.                        *)
(*                                                                         *)
(* SharedRegistryBuilder is an Arc<Mutex<HashMap<ThreadId,                 *)
(* ThreadRuntimeRef>>>: threads hold clones of it, register their runtime  *)
(* handle under their own ThreadId while holding the mutex, and one holder *)
(* finalizes it with build(), which unwraps the Arc and the Mutex into the *)
(* read-only SharedRegistry that get_current() looks up.                   *)
(*                                                                         *)
(* The operations are split at the points where another thread can         *)
(* interleave: acquiring the mutex, the critical section (the insert and   *)
(* the release of the guard), the debug assertion on the strong count,     *)
(* Arc::try_unwrap and the drop of the Arc try_unwrap hands back on Err.   *)
(*                                                                         *)
(* debug_assert_eq! is compiled in or out by the build profile, so the     *)
(* profile is a value fixed by Init.  Runtime handles are the addresses    *)
(* the caller passes; the safety contract of ThreadRuntimeRef (the Runtime *)
(* outlives every lookup of its thread) is taken as given, so a lookup     *)
(* returns the address stored.                                             *)
(***************************************************************************)
EXTENDS Integers, Sequences, FiniteSets, TLC

\* ---------------------------------------------------------------- bounds
NumWorkers == 2
NumHandles == 2
MaxClones == 2
MaxRegs == 2

\* ---------------------------------------------------------------- values
\* Threads of the managed pool, which may be handed a clone of the builder.
Workers == 1..NumWorkers
\* A thread created outside the pool: it never holds a builder, it only looks up.
Outsider == NumWorkers + 1
Threads == Workers \cup {Outsider}
Handles == 1..NumHandles
\* Option::None of a lookup, and the absence of a thread / of a result.
None == 0
NoThread == 0
NotCalled == 0 - 1
\* Option<SharedRegistry>::None held in the place of the registry.
NoRegistry == {<<0, 0>>}

VARIABLES
  debugAssertions, \* cfg!(debug_assertions) of the build
  strong,          \* Arc::strong_count of the builder's Arc
  holders,         \* holders[t]: builder clones thread t owns and has not moved into build()
  map,             \* the HashMap inside the Mutex: a set of <<ThreadId, handle>> entries
  lockHolder,      \* the thread holding the MutexGuard, or NoThread
  poisoned,        \* the Mutex's poison flag
  pc,              \* pc[t]: where thread t is inside register() / build()
  probe,           \* probe[t]: the table as thread t found it when it got the guard
  registry,        \* the SharedRegistry build() returned, or NoRegistry
  lastGet,         \* lastGet[t]: result of t's latest get_current()
  calls,           \* calls[t]: the handles t passed to register(), in call order
  soleAtCall,      \* soleAtCall[t]: t is inside a build() it called with strong count 1
  results,         \* how the build() calls so far ended: <<kind of call, result>>
  successes,       \* number of build() calls that returned Some
  contended        \* some register() call started while another thread was inside register()

vars == <<debugAssertions, strong, holders, map, lockHolder, poisoned, pc, probe,
          registry, lastGet, calls, soleAtCall, results, successes, contended>>

\* ---------------------------------------------------------------- HashMap
\* ThreadId::current() on thread t.
CurrentThreadId(t) == t

\* Variant: a miss falls back to some other entry of the table.
GetOrAny(m, k) ==
  IF \E e \in m : e[1] = k
  THEN (CHOOSE e \in m : e[1] = k)[2]
  ELSE IF m = {} THEN None ELSE (CHOOSE e \in m : TRUE)[2]

\* HashMap::get: the value stored under key k, or None.
Get(m, k) ==
  IF \E e \in m : e[1] = k
  THEN (CHOOSE e \in m : e[1] = k)[2]
  ELSE None

\* Variant: the table is rebuilt with the new entry only.
InsertClear(m, k, v) == {<<k, v>>}

\* Variant: entry(k).or_insert(v), an existing entry is kept.
InsertKeepFirst(m, k, v) == IF \E e \in m : e[1] = k THEN m ELSE m \cup {<<k, v>>}

\* HashMap::insert: replaces the entry under k, if any, by <<k, v>>.
Insert(m, k, v) == {e \in m : e[1] # k} \cup {<<k, v>>}

Keys(m) == {e[1] : e \in m}

\* Variant: the poison error is unwrapped into its inner value.
IntoInnerIgnorePoison(isPoisoned, m) == m

\* Variant: a fresh map is returned in place of the one accumulated.
IntoInnerDefault(isPoisoned, m) == IF isPoisoned THEN NoRegistry ELSE {}

\* Mutex::into_inner: Err(PoisonError) on a poisoned mutex, .ok()? makes it None.
IntoInner(isPoisoned, m) == IF isPoisoned THEN NoRegistry ELSE m

\* The kind of a build() call that ends: called as the sole holder, or ended
\* by finding another clone alive, or called while shared and alone by the
\* time it looked.
BuildKind(t, sawOther) ==
  IF soleAtCall[t] THEN "sole" ELSE IF sawOther THEN "shared" ELSE "late"

\* ---------------------------------------------------------------- Init
\* SharedRegistryBuilder::new() by thread 1, the coordinator.
Init ==
  /\ debugAssertions \in BOOLEAN
  /\ strong = 1
  /\ holders = [t \in Threads |-> IF t = 1 THEN 1 ELSE 0]
  /\ map = {}
  /\ lockHolder = NoThread
  /\ poisoned = FALSE
  /\ pc = [t \in Threads |-> "idle"]
  /\ probe = [t \in Threads |-> {}]
  /\ registry = NoRegistry
  /\ lastGet = [t \in Threads |-> NotCalled]
  /\ calls = [t \in Threads |-> <<>>]
  /\ soleAtCall = [t \in Threads |-> FALSE]
  /\ results = {}
  /\ successes = 0
  /\ contended = FALSE

\* ---------------------------------------------------------------- clones
\* #[derive(Clone)]: thread t clones a builder it owns and hands the clone to u.
Clone(t, u) ==
  /\ pc[t] = "idle"
  /\ holders[t] > 0
  /\ strong < MaxClones
  /\ strong' = strong + 1
  /\ holders' = [holders EXCEPT ![u] = @ + 1]
  /\ UNCHANGED <<debugAssertions, map, lockHolder, poisoned, pc, probe, registry,
                 lastGet, calls, soleAtCall, results, successes, contended>>

\* Drop of a clone thread t owns (the Arc's strong count goes down by one).
DropClone(t) ==
  /\ pc[t] = "idle"
  /\ holders[t] > 0
  /\ strong' = strong - 1
  /\ holders' = [holders EXCEPT ![t] = @ - 1]
  /\ UNCHANGED <<debugAssertions, map, lockHolder, poisoned, pc, probe, registry,
                 lastGet, calls, soleAtCall, results, successes, contended>>

\* ---------------------------------------------------------------- register
RECURSIVE SumLen(_, _)
SumLen(f, S) ==
  IF S = {} THEN 0
  ELSE LET x == CHOOSE y \in S : TRUE IN Len(f[x]) + SumLen(f, S \ {x})

InRegister == {"reg_lock", "reg_write"}

\* Number of register() calls made so far, by all threads.
TotalCalls == SumLen(calls, Threads)

\* register(&mut self, runtime): thread t calls it on a clone it owns.
RegisterStart(t, h) ==
  /\ pc[t] = "idle"
  /\ holders[t] > 0
  /\ TotalCalls < MaxRegs
  /\ calls' = [calls EXCEPT ![t] = Append(@, h)]
  /\ pc' = [pc EXCEPT ![t] = "reg_lock"]
  /\ contended' = (contended \/ \E u \in Threads \ {t} : pc[u] \in InRegister)
  /\ UNCHANGED <<debugAssertions, strong, holders, map, lockHolder, poisoned, probe,
                 registry, lastGet, soleAtCall, results, successes>>

\* Variant: the lock is taken without waiting for its holder.
RegisterLockNoWait(t) ==
  /\ pc[t] = "reg_lock"
  /\ IF poisoned
     THEN /\ pc' = [pc EXCEPT ![t] = "idle"]
          /\ UNCHANGED <<lockHolder, probe>>
     ELSE /\ pc' = [pc EXCEPT ![t] = "reg_write"]
          /\ lockHolder' = t
          /\ probe' = [probe EXCEPT ![t] = map]
  /\ UNCHANGED <<debugAssertions, strong, holders, map, poisoned, registry,
                 lastGet, calls, soleAtCall, results, successes, contended>>

\* Variant: the guard is a temporary of its own statement and is dropped
\* before the insert.
RegisterLockDropGuard(t) ==
  /\ pc[t] = "reg_lock"
  /\ lockHolder = NoThread
  /\ IF poisoned
     THEN /\ pc' = [pc EXCEPT ![t] = "idle"]
          /\ UNCHANGED probe
     ELSE /\ pc' = [pc EXCEPT ![t] = "reg_write"]
          /\ probe' = [probe EXCEPT ![t] = map]
  /\ UNCHANGED <<debugAssertions, strong, holders, map, lockHolder, poisoned, registry,
                 lastGet, calls, soleAtCall, results, successes, contended>>

\* self.registry.lock().unwrap(): waits for the mutex; on a poisoned mutex
\* lock() is Err, unwrap() panics and the guard inside the error is dropped.
\* With the guard the thread sees the table as it is.
RegisterLock(t) ==
  /\ pc[t] = "reg_lock"
  /\ lockHolder = NoThread
  /\ IF poisoned
     THEN /\ pc' = [pc EXCEPT ![t] = "idle"]
          /\ UNCHANGED <<lockHolder, probe>>
     ELSE /\ pc' = [pc EXCEPT ![t] = "reg_write"]
          /\ lockHolder' = t
          /\ probe' = [probe EXCEPT ![t] = map]
  /\ UNCHANGED <<debugAssertions, strong, holders, map, poisoned, registry,
                 lastGet, calls, soleAtCall, results, successes, contended>>

\* Variant: the guard is leaked, the mutex stays locked after the insert.
RegisterInsertKeepGuard(t) ==
  /\ pc[t] = "reg_write"
  /\ map' = Insert(probe[t], CurrentThreadId(t), calls[t][Len(calls[t])])
  /\ probe' = [probe EXCEPT ![t] = {}]
  /\ pc' = [pc EXCEPT ![t] = "idle"]
  /\ UNCHANGED <<debugAssertions, strong, holders, lockHolder, poisoned, registry,
                 lastGet, calls, soleAtCall, results, successes, contended>>

\* insert(ThreadId::current(), runtime) into the table the guard gave access
\* to; the temporary guard is dropped at the end of the statement.
RegisterInsert(t) ==
  /\ pc[t] = "reg_write"
  /\ map' = Insert(probe[t], CurrentThreadId(t), calls[t][Len(calls[t])])
  /\ probe' = [probe EXCEPT ![t] = {}]
  /\ lockHolder' = NoThread
  /\ pc' = [pc EXCEPT ![t] = "idle"]
  /\ UNCHANGED <<debugAssertions, strong, holders, poisoned, registry,
                 lastGet, calls, soleAtCall, results, successes, contended>>

\* A panic while the guard is alive (in ThreadId::current() or in the insert):
\* the guard is dropped during unwinding, which poisons and releases the mutex.
RegisterFail(t) ==
  /\ pc[t] = "reg_write"
  /\ poisoned' = TRUE
  /\ lockHolder' = NoThread
  /\ probe' = [probe EXCEPT ![t] = {}]
  /\ pc' = [pc EXCEPT ![t] = "idle"]
  /\ UNCHANGED <<debugAssertions, strong, holders, map, registry, lastGet, calls,
                 soleAtCall, results, successes, contended>>

\* ---------------------------------------------------------------- build
\* build(self): thread t moves one of its clones into the call.
BuildStart(t) ==
  /\ pc[t] = "idle"
  /\ holders[t] > 0
  /\ holders' = [holders EXCEPT ![t] = @ - 1]
  /\ soleAtCall' = [soleAtCall EXCEPT ![t] = (strong = 1)]
  /\ pc' = [pc EXCEPT ![t] = IF debugAssertions THEN "build_assert" ELSE "build_unwrap"]
  /\ UNCHANGED <<debugAssertions, strong, map, lockHolder, poisoned, probe, registry,
                 lastGet, calls, results, successes, contended>>

\* Variant: the assertion expects no holder besides self, counted as 0.
BuildAssertZero(t) ==
  /\ pc[t] = "build_assert"
  /\ pc' = [pc EXCEPT ![t] = IF strong = 0 THEN "build_unwrap" ELSE "build_unwind"]
  /\ UNCHANGED <<debugAssertions, strong, holders, map, lockHolder, poisoned, probe,
                 registry, lastGet, calls, soleAtCall, results, successes, contended>>

\* debug_assert_eq!(Arc::strong_count(&self.registry), 1): panics when the
\* count read is not 1 (only in a build with debug assertions).
BuildAssert(t) ==
  /\ pc[t] = "build_assert"
  /\ pc' = [pc EXCEPT ![t] = IF strong = 1 THEN "build_unwrap" ELSE "build_unwind"]
  /\ UNCHANGED <<debugAssertions, strong, holders, map, lockHolder, poisoned, probe,
                 registry, lastGet, calls, soleAtCall, results, successes, contended>>

\* Unwinding out of build() after the assertion failed drops self.
BuildUnwind(t) ==
  /\ pc[t] = "build_unwind"
  /\ strong' = strong - 1
  /\ pc' = [pc EXCEPT ![t] = "idle"]
  /\ results' = results \cup {<<BuildKind(t, TRUE), "panic">>}
  /\ soleAtCall' = [soleAtCall EXCEPT ![t] = FALSE]
  /\ UNCHANGED <<debugAssertions, holders, map, lockHolder, poisoned, probe, registry,
                 lastGet, calls, successes, contended>>

\* Variant: the map is taken out whenever the Arc is alive, whatever its count.
BuildTryUnwrapShared(t) ==
  /\ pc[t] = "build_unwrap"
  /\ strong >= 1
  /\ strong' = strong - 1
  /\ registry' = IntoInner(poisoned, map)
  /\ results' = results \cup
       {<<BuildKind(t, FALSE), IF registry' = NoRegistry THEN "absent" ELSE "some">>}
  /\ successes' = IF registry' = NoRegistry THEN successes ELSE successes + 1
  /\ pc' = [pc EXCEPT ![t] = "idle"]
  /\ soleAtCall' = [soleAtCall EXCEPT ![t] = FALSE]
  /\ UNCHANGED <<debugAssertions, holders, map, lockHolder, poisoned, probe, lastGet,
                 calls, contended>>

\* Variant: build() locks the mutex to read the map, so it waits for the guard.
BuildTryUnwrapLocking(t) ==
  /\ pc[t] = "build_unwrap"
  /\ lockHolder = NoThread
  /\ IF strong = 1
     THEN /\ strong' = 0
          /\ registry' = IntoInner(poisoned, map)
          /\ results' = results \cup
               {<<BuildKind(t, FALSE), IF registry' = NoRegistry THEN "absent" ELSE "some">>}
          /\ successes' = IF registry' = NoRegistry THEN successes ELSE successes + 1
          /\ pc' = [pc EXCEPT ![t] = "idle"]
          /\ soleAtCall' = [soleAtCall EXCEPT ![t] = FALSE]
     ELSE /\ pc' = [pc EXCEPT ![t] = "build_drop"]
          /\ UNCHANGED <<strong, registry, results, successes, soleAtCall>>
  /\ UNCHANGED <<debugAssertions, holders, map, lockHolder, poisoned, probe, lastGet,
                 calls, contended>>

\* Arc::try_unwrap(self.registry).ok()?.into_inner().ok()?  try_unwrap takes
\* the Mutex out iff the strong count is 1 (one compare-exchange 1 -> 0);
\* into_inner then gives the map, or an error when the mutex is poisoned.
\* Otherwise try_unwrap hands the Arc back inside Err.
BuildTryUnwrap(t) ==
  /\ pc[t] = "build_unwrap"
  /\ IF strong = 1
     THEN /\ strong' = 0
          /\ registry' = IntoInner(poisoned, map)
          /\ results' = results \cup
               {<<BuildKind(t, FALSE), IF registry' = NoRegistry THEN "absent" ELSE "some">>}
          /\ successes' = IF registry' = NoRegistry THEN successes ELSE successes + 1
          /\ pc' = [pc EXCEPT ![t] = "idle"]
          /\ soleAtCall' = [soleAtCall EXCEPT ![t] = FALSE]
     ELSE /\ pc' = [pc EXCEPT ![t] = "build_drop"]
          /\ UNCHANGED <<strong, registry, results, successes, soleAtCall>>
  /\ UNCHANGED <<debugAssertions, holders, map, lockHolder, poisoned, probe, lastGet,
                 calls, contended>>

\* Variant: the Arc handed back is leaked, its count never goes down.
BuildDropErrLeak(t) ==
  /\ pc[t] = "build_drop"
  /\ pc' = [pc EXCEPT ![t] = "idle"]
  /\ results' = results \cup {<<BuildKind(t, TRUE), "absent">>}
  /\ soleAtCall' = [soleAtCall EXCEPT ![t] = FALSE]
  /\ UNCHANGED <<debugAssertions, strong, holders, map, lockHolder, poisoned, probe,
                 registry, lastGet, calls, successes, contended>>

\* .ok()? on Err(arc): the Arc handed back is dropped and build returns None.
BuildDropErr(t) ==
  /\ pc[t] = "build_drop"
  /\ strong' = strong - 1
  /\ pc' = [pc EXCEPT ![t] = "idle"]
  /\ results' = results \cup {<<BuildKind(t, TRUE), "absent">>}
  /\ soleAtCall' = [soleAtCall EXCEPT ![t] = FALSE]
  /\ UNCHANGED <<debugAssertions, holders, map, lockHolder, poisoned, probe, registry,
                 lastGet, calls, successes, contended>>

\* ---------------------------------------------------------------- lookup
\* Variant: the lookup key is not the caller's identity.
GetCurrentAnyKey(t) ==
  /\ registry # NoRegistry
  /\ pc[t] = "idle"
  /\ \E k \in Threads : lastGet' = [lastGet EXCEPT ![t] = Get(registry, k)]
  /\ registry' = registry
  /\ UNCHANGED <<debugAssertions, strong, holders, map, lockHolder, poisoned, pc,
                 probe, calls, soleAtCall, results, successes, contended>>

\* Variant: HashMap::remove in place of HashMap::get.
GetCurrentRemove(t) ==
  /\ registry # NoRegistry
  /\ pc[t] = "idle"
  /\ lastGet' = [lastGet EXCEPT ![t] = Get(registry, CurrentThreadId(t))]
  /\ registry' = {e \in registry : e[1] # CurrentThreadId(t)}
  /\ UNCHANGED <<debugAssertions, strong, holders, map, lockHolder, poisoned, pc,
                 probe, calls, soleAtCall, results, successes, contended>>

\* Variant: the runtime found by the first lookup is cached for all threads.
GetCurrentCached(t) ==
  /\ registry # NoRegistry
  /\ pc[t] = "idle"
  /\ lastGet' = [lastGet EXCEPT ![t] =
                   IF \E u \in Threads : lastGet[u] \in Handles
                   THEN lastGet[CHOOSE u \in Threads : lastGet[u] \in Handles]
                   ELSE Get(registry, CurrentThreadId(t))]
  /\ registry' = registry
  /\ UNCHANGED <<debugAssertions, strong, holders, map, lockHolder, poisoned, pc,
                 probe, calls, soleAtCall, results, successes, contended>>

\* get_current(self: Arc<Self>): self.registry.get(&ThreadId::current()),
\* on any thread once the registry exists.
GetCurrent(t) ==
  /\ registry # NoRegistry
  /\ pc[t] = "idle"
  /\ lastGet' = [lastGet EXCEPT ![t] = Get(registry, CurrentThreadId(t))]
  /\ registry' = registry
  /\ UNCHANGED <<debugAssertions, strong, holders, map, lockHolder, poisoned, pc,
                 probe, calls, soleAtCall, results, successes, contended>>

\* ---------------------------------------------------------------- system
Next ==
  \/ \E t \in Threads, u \in Workers : Clone(t, u)
  \/ \E t \in Threads : DropClone(t)
  \/ \E t \in Threads, h \in Handles : RegisterStart(t, h)
  \/ \E t \in Threads : RegisterLock(t)
  \/ \E t \in Threads : RegisterInsert(t)
  \/ \E t \in Threads : RegisterFail(t)
  \/ \E t \in Threads : BuildStart(t)
  \/ \E t \in Threads : BuildAssert(t)
  \/ \E t \in Threads : BuildUnwind(t)
  \/ \E t \in Threads : BuildTryUnwrap(t)
  \/ \E t \in Threads : BuildDropErr(t)
  \/ \E t \in Threads : GetCurrent(t)

Spec == Init /\ [][Next]_vars

\* The program when no thread panics inside the critical section.
NextNoFail ==
  \/ \E t \in Threads, u \in Workers : Clone(t, u)
  \/ \E t \in Threads : DropClone(t)
  \/ \E t \in Threads, h \in Handles : RegisterStart(t, h)
  \/ \E t \in Threads : RegisterLock(t)
  \/ \E t \in Threads : RegisterInsert(t)
  \/ \E t \in Threads : BuildStart(t)
  \/ \E t \in Threads : BuildAssert(t)
  \/ \E t \in Threads : BuildUnwind(t)
  \/ \E t \in Threads : BuildTryUnwrap(t)
  \/ \E t \in Threads : BuildDropErr(t)
  \/ \E t \in Threads : GetCurrent(t)

\* A thread inside the critical section runs on, and a thread waiting for
\* the mutex gets it once the mutex stays free.  The number of register()
\* calls is bounded, so a waiting thread is overtaken only finitely often
\* and weak fairness of the acquisition is all a fair lock is needed for.
FairSpec ==
  /\ Init
  /\ [][NextNoFail]_vars
  /\ \A t \in Threads : WF_vars(RegisterInsert(t))
  /\ \A t \in Threads : WF_vars(RegisterLock(t))

TypeOK ==
  /\ debugAssertions \in BOOLEAN
  /\ strong \in 0..MaxClones
  /\ holders \in [Threads -> 0..MaxClones]
  /\ map \subseteq (Threads \X Handles)
  /\ lockHolder \in Threads \cup {NoThread}
  /\ poisoned \in BOOLEAN
  /\ registry = NoRegistry \/ registry \subseteq (Threads \X Handles)
  /\ \A t \in Threads : lastGet[t] \in Handles \cup {None, NotCalled}
  /\ TotalCalls <= MaxRegs
  /\ results \subseteq ({"sole", "shared", "late"} \X {"some", "absent", "panic"})
  /\ successes \in 0..1

\* ---------------------------------------------------------------- properties
Finalized == registry # NoRegistry

Registered(t) == Len(calls[t]) > 0

\* The handle of thread t's most recent register() call.
LastHandle(t) == calls[t][Len(calls[t])]

\* Every handle thread t ever passed to register().
Passed(t) == {calls[t][i] : i \in 1..Len(calls[t])}

\* One entry per thread that registered, holding its most recent handle.
Accumulated == {<<t, LastHandle(t)>> : t \in {u \in Threads : Registered(u)}}

\* C1: when every thread registered at most once and dropped its clone, a
\* build() by the sole remaining holder (lock not poisoned) succeeds, the
\* registry has exactly one entry per registered thread, and get_current()
\* on a thread returns the handle that thread registered, or absence for a
\* thread that never registered.
C1_RegisterOnceThenBuild ==
  /\ <<"sole", "panic">> \notin results
  /\ ~poisoned => <<"sole", "absent">> \notin results
  /\ (Finalized /\ \A t \in Threads : Len(calls[t]) <= 1) =>
       /\ Cardinality(registry) = Cardinality({t \in Threads : Len(calls[t]) = 1})
       /\ \A t \in Threads :
            lastGet[t] # NotCalled =>
              lastGet[t] = (IF Len(calls[t]) = 1 THEN calls[t][1] ELSE None)

C1_Witness ==
  /\ Finalized
  /\ <<"sole", "some">> \in results
  /\ \A t \in Threads : Len(calls[t]) <= 1 /\ lastGet[t] # NotCalled
  /\ \E t, u, w \in Threads :
       /\ t # u
       /\ Len(calls[t]) = 1 /\ lastGet[t] = calls[t][1]
       /\ Len(calls[u]) = 1 /\ lastGet[u] = calls[u][1]
       /\ calls[t][1] # calls[u][1]
       /\ Len(calls[w]) = 0 /\ lastGet[w] = None

\* C2: a get_current() by thread t returns absence or a handle t itself
\* passed to register(), never a handle only another thread registered.
C2_OnlyOwnHandle ==
  \A t \in Threads : lastGet[t] \in ({NotCalled, None} \cup Passed(t))

C2_Witness ==
  \E t, u \in Threads :
    /\ t # u
    /\ lastGet[t] \in Handles
    /\ Get(registry, u) \in Handles \ Passed(t)

\* C3: a build() that finds another clone of the builder alive returns
\* normally with no registry (absence); it neither faults nor yields a registry.
C3_SharedBuildYieldsAbsence ==
  \A r \in results : r[1] = "shared" => r[2] = "absent"

\* C4: a build() by the sole remaining holder of a builder whose lock is
\* poisoned yields absence, and no registry exists while the lock is
\* poisoned, whatever entries were inserted before the failure.
C4_PoisonedBuildYieldsAbsence ==
  /\ poisoned => ~Finalized
  /\ poisoned => \A r \in results : r[1] = "sole" => r[2] = "absent"

C4_Witness ==
  /\ <<"sole", "absent">> \in results
  /\ poisoned
  /\ map # {}

\* C5: register() calls of distinct threads never lose an entry, however
\* they interleave: once build() succeeded, every thread that registered
\* has an entry, and a thread that registered once has its handle there.
C5_NoLostEntry ==
  Finalized =>
    /\ {t \in Threads : Registered(t)} \subseteq Keys(registry)
    /\ \A t \in Threads : Len(calls[t]) = 1 => <<t, calls[t][1]>> \in registry

C5_Witness ==
  /\ Finalized
  /\ contended
  /\ Cardinality({t \in Threads : Registered(t)}) >= 2
  /\ \A t \in Threads : Registered(t) => <<t, calls[t][1]>> \in registry

\* C6: the mapping holds at most one entry per thread identity, a second
\* register() of a thread overwrites its first, and after a successful
\* build() the thread's entry and its get_current() give the handle of its
\* most recent register() call.
C6_LastWriteWins ==
  /\ \A e1, e2 \in map : e1[1] = e2[1] => e1 = e2
  /\ Finalized =>
       /\ \A e1, e2 \in registry : e1[1] = e2[1] => e1 = e2
       /\ \A t \in Threads :
            Registered(t) =>
              /\ Get(registry, t) = LastHandle(t)
              /\ lastGet[t] \in {NotCalled, LastHandle(t)}

C6_Witness ==
  /\ Finalized
  /\ \E t \in Threads :
       /\ Len(calls[t]) = 2
       /\ calls[t][1] # calls[t][2]
       /\ lastGet[t] = calls[t][2]

\* C7: get_current() on a thread that has no entry in the registry returns
\* absence, for every registry including the empty one.
C7_MissIsAbsence ==
  \A t \in Threads :
    (Finalized /\ lastGet[t] # NotCalled /\ t \notin Keys(registry))
      => lastGet[t] = None

C7_Witness ==
  /\ Finalized
  /\ registry # {}
  /\ \E t \in Threads : t \notin Keys(registry) /\ lastGet[t] = None

\* C8: once the registry exists its mapping never changes; in particular a
\* get_current() leaves it as it was.
C8_RegistryImmutable ==
  [][Finalized => registry' = registry]_vars

C8_Witness ==
  /\ Finalized
  /\ \E t \in Threads : lastGet[t] \in Handles
  /\ \E u \in Threads : lastGet[u] = None

\* C9: at most one build() ever succeeds; once one has, no clone of the
\* builder is alive and no thread is inside register() or build(), and the
\* registry never goes back to being absent.
C9_FinalizeOnce ==
  /\ [](/\ successes <= 1
        /\ Finalized =>
             /\ strong = 0
             /\ \A t \in Threads : holders[t] = 0 /\ pc[t] = "idle")
  /\ [][Finalized => Finalized']_vars

C9_Witness ==
  /\ Finalized
  /\ \E r \in results : r[2] \in {"absent", "panic"}

\* C10: a build() that succeeds returns exactly the builder's mapping as
\* it is at that moment, which is the last handle of every thread that
\* registered and nothing else (empty when nobody registered).
C10_BuildReturnsAccumulated ==
  [][(~Finalized /\ Finalized') => (registry' = map /\ registry' = Accumulated)]_vars

C10_Witness ==
  /\ Finalized
  /\ registry = map
  /\ Cardinality(registry) >= 2

\* C11: each register() is atomic under the lock: at most one thread is
\* inside the insert, it works on the table as it is (nobody changed it
\* since the guard was taken), a build() takes the map only when no insert
\* is in progress, and the registrations commute: with no register() in
\* progress the mapping is fixed by the calls made, not by their order.
C11_RegisterAtomic ==
  /\ Cardinality({t \in Threads : pc[t] = "reg_write"}) <= 1
  /\ \A t \in Threads : pc[t] = "reg_write" <=> lockHolder = t
  /\ \A t \in Threads : pc[t] = "reg_write" => probe[t] = map
  /\ \A t \in Threads :
       (pc[t] = "build_unwrap" /\ strong = 1) => lockHolder = NoThread
  /\ (~poisoned /\ \A t \in Threads : pc[t] \notin InRegister) => map = Accumulated

C11_Witness ==
  \E t, u \in Threads :
    /\ t # u
    /\ pc[t] = "reg_write"
    /\ pc[u] = "reg_lock"
    /\ lockHolder = t
    /\ probe[t] = map

InBuild == {"build_assert", "build_unwrap", "build_drop", "build_unwind"}

\* The step thread t takes next inside build().
BuildStep(t) ==
  BuildAssert(t) \/ BuildUnwind(t) \/ BuildTryUnwrap(t) \/ BuildDropErr(t)

\* C12: build() never waits: wherever a thread is inside build() its next
\* step can be taken at once, whoever holds clones or the lock, and no step
\* of build() acquires or releases the lock.
C12_BuildNeverWaits ==
  /\ [](\A t \in Threads : pc[t] \in InBuild => ENABLED BuildStep(t))
  /\ [][\A t \in Threads : pc[t] \in InBuild /\ pc'[t] # pc[t]
                             => lockHolder' = lockHolder]_vars

C12_Witness ==
  \E t, u \in Threads :
    /\ t # u
    /\ pc[t] = "build_drop"
    /\ lockHolder = u
    /\ pc[u] = "reg_write"
    /\ strong > 1

\* C13: lookups never block one another and take no lock: once the registry
\* exists get_current() is enabled on every thread in every state, the lock
\* is never held, and each thread's result is the entry under its own
\* identity in the fixed mapping, whatever lookups other threads made.
C13_LookupsIndependent ==
  Finalized =>
    /\ \A t \in Threads : ENABLED GetCurrent(t)
    /\ lockHolder = NoThread
    /\ \A t \in Threads : lastGet[t] # NotCalled => lastGet[t] = Get(registry, t)

C13_Witness ==
  /\ Finalized
  /\ \A t \in Threads : lastGet[t] # NotCalled
  /\ \E t, u \in Threads : lastGet[t] \in Handles /\ lastGet[u] \in Handles
                             /\ lastGet[t] # lastGet[u]

\* Thread t's build() ends without a registry because another clone was alive.
BuildFailsShared(t) == pc[t] \in {"build_drop", "build_unwind"} /\ pc'[t] = "idle"

\* C14: a build() that fails because another clone is alive gives up only
\* the caller's own holder (the count goes down by one, the other threads'
\* clones stay) and leaves the mapping and the lock as they were; a later
\* build() by the sole remaining holder then succeeds (lock not poisoned)
\* with every entry registered so far.
C14_FailedBuildKeepsMapping ==
  /\ [][\A t \in Threads :
          BuildFailsShared(t) =>
            /\ strong' = strong - 1
            /\ holders' = holders
            /\ map' = map
            /\ poisoned' = poisoned
            /\ lockHolder' = lockHolder]_vars
  /\ []((\E r \in results : r[1] = "shared") =>
          /\ <<"sole", "panic">> \notin results
          /\ ~poisoned => <<"sole", "absent">> \notin results
          /\ Finalized => registry = Accumulated)

C14_Witness ==
  /\ \E r \in results : r[1] = "shared"
  /\ <<"sole", "some">> \in results
  /\ Finalized
  /\ registry # {}
  /\ registry = Accumulated

\* Thread t's build() returns or unwinds in this step.
BuildEnds(t) == pc[t] \in InBuild /\ pc'[t] = "idle"

\* C15: the holder-count check has no check-then-act race: a build() called
\* by the only holder stays the only holder (nobody clones, nobody holds the
\* lock) and succeeds unless the lock is poisoned; and a build() called
\* while a clone was alive that is alone by the time it ends (the clone was
\* dropped concurrently) ends with the full mapping or with absence, never
\* with a partial registry or a fault.
C15_NoCheckThenActRace ==
  /\ [](\A t \in Threads :
          soleAtCall[t] =>
            /\ strong = 1
            /\ lockHolder = NoThread
            /\ \A u \in Threads : holders[u] = 0 /\ (u # t => pc[u] = "idle"))
  /\ [](/\ <<"sole", "panic">> \notin results
        /\ ~poisoned => <<"sole", "absent">> \notin results)
  /\ [][\A t \in Threads :
          (BuildEnds(t) /\ ~soleAtCall[t] /\ strong = 1) =>
            \/ Finalized' /\ registry' = Accumulated
            \/ ~Finalized' /\ pc[t] # "build_unwind"]_vars

\* C16: under the startup protocol (every other clone was dropped before
\* build() is called) the assertion at the start of build() holds: the
\* count it reads is 1 and the call never takes the unwinding path.
C16_AssertHoldsUnderProtocol ==
  \A t \in Threads :
    soleAtCall[t] =>
      /\ pc[t] \in {"build_assert", "build_unwrap"}
      /\ pc[t] = "build_assert" => strong = 1

C16_Witness ==
  /\ debugAssertions
  /\ \E t, u \in Threads :
       /\ t # u
       /\ soleAtCall[t]
       /\ pc[t] = "build_unwrap"
       /\ Registered(t)
       /\ Registered(u)
       /\ Cardinality(map) = 2

\* C17: poisoning is permanent and fail-stop: once the lock is poisoned it
\* stays poisoned, no entry is inserted or changed, every register() that
\* reaches the lock faults without entering the critical section, every
\* build() that ends yields absence (a normal return without registry), and
\* no registry is ever produced.
C17_PoisonFailStop ==
  /\ [][poisoned => (poisoned' /\ map' = map /\ ~Finalized')]_vars
  /\ [][poisoned =>
          \A t \in Threads :
            (pc[t] = "reg_lock" /\ pc'[t] # "reg_lock") => pc'[t] = "idle"]_vars
  /\ [][poisoned =>
          \A t \in Threads : BuildEnds(t) => pc[t] # "build_unwind"]_vars

\* C18: register() blocks only briefly: with a fair lock and no panic inside
\* the critical section, every register() call that has started ends with
\* its entry in the map, and the lock is free whenever no thread is inside
\* the critical section.
C18_RegisterCompletes ==
  /\ []((\A t \in Threads : pc[t] # "reg_write") => lockHolder = NoThread)
  /\ \A t \in Threads :
       (pc[t] \in InRegister) ~>
         (/\ pc[t] = "idle"
          /\ Registered(t)
          /\ Get(map, t) = LastHandle(t)
          /\ lockHolder # t)

C18_Witness ==
  /\ contended
  /\ ~poisoned
  /\ \A t \in Threads : pc[t] = "idle"
  /\ lockHolder = NoThread
  /\ Cardinality(map) >= 2
  /\ map = Accumulated

====
